---- MODULE Spec2Model ----
(***************************************************************************)
(* Model of src/bandit.go: the two Bandit strategies (epsilonGreedy,       *)
(* softmax) and the Experiment / Trial / Trials layer with the experiment  *)
(* parser.                                                                 *)
(*                                                                         *)
(* float64 quantities (values, rewards, epsilon, tau, random draws) are    *)
(* exact rationals <<numerator, denominator>>; rounding is not modelled.   *)
(* math.Exp is a fixed-point Taylor series.  A Go run-time panic (index    *)
(* out of range) is the outcome "panic" and stops the run.                 *)
(***************************************************************************)
EXTENDS Integers, Sequences, FiniteSets, TLC

VARIABLES b, last, hist, steps, pc,
          records, factory, experiments, perr, trials, terr, tlast, calls, tpc

banditVars == <<b, last, hist, steps, pc>>

trialVars == <<records, factory, experiments, perr, trials, terr, tlast, calls, tpc>>

vars == <<banditVars, trialVars>>

(* ------------------------------ bounds --------------------------------- *)

MaxArms == 2

MaxSteps == 4

MaxRecords == 3

MaxCalls == 1

(* --------------------------- float64 as rationals ---------------------- *)

Abs(x) == IF x < 0 THEN -x ELSE x

RECURSIVE Gcd(_, _)
Gcd(x, y) == IF y = 0 THEN x ELSE Gcd(y, x % y)

Rat(n, d) ==
  LET g == Gcd(Abs(n), Abs(d))
      s == IF d < 0 THEN -1 ELSE 1
  IN  <<(s * n) \div g, (s * d) \div g>>

Zero == <<0, 1>>

One == <<1, 1>>

RLess(x, y) == x[1] * y[2] < y[1] * x[2]

RLeq(x, y) == x[1] * y[2] <= y[1] * x[2]

(* rewards reported to Update *)
Rewards == {-2, 0, 1}

(* outcomes of rand.Float64(), a draw in [0, 1) *)
Uniforms == {<<0, 1>>, <<1, 4>>, <<1, 2>>, <<3, 4>>}

(* epsilon arguments given to EpsilonGreedyNew, two of them invalid *)
Epsilons == {<<-1, 4>>, <<0, 1>>, <<1, 4>>, <<1, 1>>, <<5, 4>>}

(* tau arguments given to SoftmaxNew, one of them invalid *)
Taus == {<<-1, 1>>, <<0, 1>>, <<1, 1>>, <<2, 1>>}

(* ------------------------------ fmt "%.2f" ----------------------------- *)

Digit(d) == CASE d = 0 -> "0" [] d = 1 -> "1" [] d = 2 -> "2" [] d = 3 -> "3"
              [] d = 4 -> "4" [] d = 5 -> "5" [] d = 6 -> "6" [] d = 7 -> "7"
              [] d = 8 -> "8" [] d = 9 -> "9"

RECURSIVE Decimal(_)
Decimal(n) == IF n < 10 THEN Digit(n) ELSE Decimal(n \div 10) \o Digit(n % 10)

(* the value in hundredths, rounded half to even *)
Hundredths(x) ==
  LET n == Abs(x[1]) * 100
      q == n \div x[2]
      r == n % x[2]
  IN  IF 2 * r > x[2] \/ (2 * r = x[2] /\ q % 2 = 1) THEN q + 1 ELSE q

Fmt2f(x) ==
  LET h == Hundredths(x)
  IN  (IF x[1] < 0 THEN "-" ELSE "") \o Decimal(h \div 100) \o "."
        \o Digit((h \div 10) % 10) \o Digit(h % 10)

(* ------------------------------ math.Exp ------------------------------- *)

(* fixed-point unit of the exponentials and probabilities *)
Scale == 10000

ExpTerms == 14

RECURSIVE ExpSeries(_, _, _, _)
ExpSeries(x, k, term, acc) ==
  IF k > ExpTerms THEN acc
  ELSE LET t == (term * x[1]) \div (x[2] * k)
       IN  ExpSeries(x, k + 1, t, acc + t)

(* exp(x) * Scale for a rational x *)
Exp(x) == ExpSeries(x, 1, Scale, Scale)

(* ------------------------------ make ----------------------------------- *)

MakeInts(n) == [i \in 1..n |-> 0]

MakeFloats(n) == [i \in 1..n |-> Zero]

(* --------------------------- epsilonGreedy ----------------------------- *)

EpsilonGreedyNew(arms, epsilon) ==
  IF ~(RLeq(Zero, epsilon) /\ RLeq(epsilon, One))
  THEN [err |-> "epsilon not in [0, 1]", bandit |-> [kind |-> "epsilonGreedy"]]
  ELSE [err |-> "",
        bandit |-> [kind |-> "epsilonGreedy", counts |-> MakeInts(arms),
                    values |-> MakeFloats(arms), arms |-> arms,
                    epsilon |-> epsilon]]

(* mutant: the loop with >= in place of >, which keeps the last maximum *)
RECURSIVE BestArmLastMax(_, _, _)
BestArmLastMax(values, i, arm) ==
  IF i >= Len(values) THEN arm
  ELSE BestArmLastMax(values, i + 1,
                      IF RLeq(values[arm + 1], values[i + 1]) THEN i ELSE arm)

(* the loop of lines 48-52; arm and i are 0-based as in the code *)
RECURSIVE BestArm(_, _, _)
BestArm(values, i, arm) ==
  IF i >= Len(values) THEN arm
  ELSE BestArm(values, i + 1,
               IF RLess(values[arm + 1], values[i + 1]) THEN i ELSE arm)

(* mutant: the 0-based index returned without the + 1 *)
EpsilonGreedySelectArmZeroBased(e, u, n) ==
  LET exploit == RLess(e.epsilon, u)
      arm == IF exploit THEN BestArm(e.values, 0, 0) ELSE n
  IN  [bandit |-> [e EXCEPT !.counts[arm + 1] = @ + 1],
       ret |-> arm,
       branch |-> IF exploit THEN "exploit" ELSE "explore",
       outcome |-> "ok"]

(* u is the result of rand.Float64(), n the result of rand.Intn(arms) *)
EpsilonGreedySelectArm(e, u, n) ==
  LET exploit == RLess(e.epsilon, u)
      arm == IF exploit THEN BestArm(e.values, 0, 0) ELSE n
  IN  [bandit |-> [e EXCEPT !.counts[arm + 1] = @ + 1],
       ret |-> arm + 1,
       branch |-> IF exploit THEN "exploit" ELSE "explore",
       outcome |-> "ok"]

RunningAverage(value, count, reward) ==
  Rat(value[1] * (count - 1) + reward * value[2], value[2] * count)

EpsilonGreedyUpdate(e, arm0, reward) ==
  LET arm == arm0 - 1
  IN  IF arm < 0 \/ arm >= Len(e.counts)
      THEN [bandit |-> e, outcome |-> "panic"]
      ELSE LET count == e.counts[arm + 1] + 1
           IN  [bandit |-> [e EXCEPT !.counts[arm + 1] = count,
                                     !.values[arm + 1] =
                                        RunningAverage(@, count, reward)],
                outcome |-> "ok"]

EpsilonGreedyVersion(e) == "EpsilonGreedy(epsilon=" \o Fmt2f(e.epsilon) \o ")"

(* mutant: a Reset that forgets to clear the values *)
EpsilonGreedyResetCountsOnly(e) == [e EXCEPT !.counts = MakeInts(e.arms)]

EpsilonGreedyReset(e) ==
  [e EXCEPT !.counts = MakeInts(e.arms), !.values = MakeFloats(e.arms)]

(* ------------------------------- softmax -------------------------------- *)

SoftmaxNew(arms, tau) ==
  IF ~RLeq(Zero, tau)
  THEN [err |-> "tau not in [0, inf]", bandit |-> [kind |-> "softmax"]]
  ELSE [err |-> "",
        bandit |-> [kind |-> "softmax", counts |-> MakeInts(arms),
                    values |-> MakeFloats(arms), arms |-> arms, tau |-> tau]]

(* value / tau, for tau > 0 *)
RQuot(x, y) == Rat(x[1] * y[2], x[2] * y[1])

RECURSIVE SumTo(_, _)
SumTo(s, n) == IF n = 0 THEN 0 ELSE SumTo(s, n - 1) + s[n]

(* the loop of lines 119-124: the first 0-based i whose running sum of the *)
(* distribution exceeds z, or len(distribution) when there is none         *)
RECURSIVE FirstAbove(_, _, _, _)
FirstAbove(distribution, z, i, accum) ==
  IF i >= Len(distribution) THEN Len(distribution)
  ELSE LET a == accum + distribution[i + 1]
       IN  IF a > z THEN i ELSE FirstAbove(distribution, z, i + 1, a)

(* With tau = 0 every value / tau is NaN or an infinity, so z and every    *)
(* accum are NaN, 0 or +Inf and no accum > z comparison is true.           *)
SoftmaxSelectArm(s) ==
  LET n == Len(s.values)
      e == [i \in 1..n |-> Exp(RQuot(s.values[i], s.tau))]
      z == SumTo(e, n)
      distribution == [i \in 1..n |-> (e[i] * Scale) \div z]
      i == IF s.tau = Zero THEN n ELSE FirstAbove(distribution, z, 0, 0)
  IN  [bandit |-> s,
       ret |-> IF i < n THEN i ELSE n - 1,
       branch |-> IF i < n THEN "accum" ELSE "last",
       outcome |-> "ok"]

SoftmaxUpdate(s, arm0, reward) ==
  LET arm == arm0 - 1
  IN  IF arm < 0 \/ arm >= Len(s.counts)
      THEN [bandit |-> s, outcome |-> "panic"]
      ELSE LET count == s.counts[arm + 1] + 1
           IN  [bandit |-> [s EXCEPT !.counts[arm + 1] = count,
                                     !.values[arm + 1] =
                                        RunningAverage(@, count, reward)],
                outcome |-> "ok"]

SoftmaxVersion(s) == "Softmax(tau=" \o Fmt2f(s.tau) \o ")"

SoftmaxReset(s) ==
  [s EXCEPT !.counts = MakeInts(s.arms), !.values = MakeFloats(s.arms)]

(* -------------------- the Bandit interface (dispatch) ------------------ *)

BanditUpdate(bd, arm, reward) ==
  IF bd.kind = "epsilonGreedy" THEN EpsilonGreedyUpdate(bd, arm, reward)
  ELSE SoftmaxUpdate(bd, arm, reward)

BanditReset(bd) ==
  IF bd.kind = "epsilonGreedy" THEN EpsilonGreedyReset(bd) ELSE SoftmaxReset(bd)

BanditVersion(bd) ==
  IF bd.kind = "epsilonGreedy" THEN EpsilonGreedyVersion(bd)
  ELSE SoftmaxVersion(bd)

(* ------------------------------ strings -------------------------------- *)
(* A string is a sequence of one-character strings.                        *)

IsSpace(c) == c \in {" ", "\t"}

(* strings.Fields: the maximal runs of non-space characters *)
RECURSIVE FieldsFrom(_, _, _, _)
FieldsFrom(s, i, word, words) ==
  IF i > Len(s) THEN (IF word = <<>> THEN words ELSE Append(words, word))
  ELSE IF IsSpace(s[i])
       THEN FieldsFrom(s, i + 1, <<>>,
                       IF word = <<>> THEN words ELSE Append(words, word))
       ELSE FieldsFrom(s, i + 1, Append(word, s[i]), words)

Fields(s) == FieldsFrom(s, 1, <<>>, <<>>)

HasPrefix(s, prefix) ==
  Len(prefix) <= Len(s) /\ SubSeq(s, 1, Len(prefix)) = prefix

DigitValue(c) == CASE c = "0" -> 0 [] c = "1" -> 1 [] c = "2" -> 2 [] c = "3" -> 3
                   [] c = "4" -> 4 [] c = "5" -> 5 [] c = "6" -> 6 [] c = "7" -> 7
                   [] c = "8" -> 8 [] c = "9" -> 9 [] OTHER -> -1

RECURSIVE AtoiDigits(_, _, _)
AtoiDigits(s, i, acc) ==
  IF i > Len(s) THEN [ok |-> TRUE, n |-> acc]
  ELSE IF DigitValue(s[i]) < 0 THEN [ok |-> FALSE, n |-> 0]
       ELSE AtoiDigits(s, i + 1, acc * 10 + DigitValue(s[i]))

(* strconv.Atoi: an optional sign and at least one decimal digit *)
Atoi(s) ==
  LET signed == s # <<>> /\ s[1] \in {"+", "-"}
      digits == IF signed THEN Tail(s) ELSE s
      r == AtoiDigits(digits, 1, 0)
  IN  IF digits = <<>> \/ ~r.ok THEN [ok |-> FALSE, n |-> 0]
      ELSE [ok |-> TRUE, n |-> IF signed /\ s[1] = "-" THEN -r.n ELSE r.n]

(* ------------------------- Experiment, Variant ------------------------- *)

EmptyMap == [x \in {} |-> x]

ExperimentGetVariant(e, ordinal) ==
  LET l == Len(e.Variants)
  IN  IF ordinal < 0 \/ ordinal > l
      THEN [outcome |-> "error", err |-> "ordinal not in [1,l]"]
      ELSE IF ordinal - 1 < 0
           THEN [outcome |-> "panic"]
           ELSE [outcome |-> "ok", variant |-> e.Variants[(ordinal - 1) + 1]]

VariantsLess(v, i, j) == v[i].Ordinal < v[j].Ordinal

(* sort.Sort(variants): any ordering of the elements in which no element   *)
(* is Less than one before it (the sort is not stable)                     *)
SortOutcomes(v) ==
  LET n == Len(v)
      perms == {p \in [1..n -> 1..n] : \A i, j \in 1..n : i # j => p[i] # p[j]}
      sorted == {[i \in 1..n |-> v[p[i]]] : p \in perms}
  IN  {w \in sorted : \A i, j \in 1..n : i < j => ~VariantsLess(w, j, i)}

(* ------------------------- ParseExperiments ---------------------------- *)

(* the loop of lines 282-311 from record i on; variants maps names to      *)
(* the Variants collected so far                                           *)
RECURSIVE ParseRecords(_, _, _)
ParseRecords(recs, i, variants) ==
  IF i > Len(recs) THEN [err |-> "", variants |-> variants]
  ELSE
    LET record == recs[i]
    IN  IF Len(record) # 4
        THEN [err |-> "record is not 4 long", variants |-> variants]
        ELSE
          LET ordinal == Atoi(record[2])
              name == record[1]
              tag == record[4]
              variant == [Ordinal |-> ordinal.n, URL |-> record[3], Tag |-> tag]
          IN  IF ~ordinal.ok
              THEN [err |-> "invalid ordinal", variants |-> variants]
              ELSE IF Len(Fields(name)) # 1
              THEN [err |-> "experiment has whitespace", variants |-> variants]
              ELSE IF Len(Fields(tag)) # 1
              THEN [err |-> "tag has whitespace", variants |-> variants]
              ELSE IF ~HasPrefix(tag, name \o <<":">>)
              THEN [err |-> "tag must start with name:", variants |-> variants]
              ELSE ParseRecords(recs, i + 1,
                     [n \in DOMAIN variants \cup {name} |->
                        IF n = name
                        THEN (IF name \in DOMAIN variants
                              THEN Append(variants[name], variant)
                              ELSE <<variant>>)
                        ELSE variants[n]])

(* mutant: the check started at the second variant *)
NoncontiguousFromSecond(variants) ==
  \E i \in 1..(Len(variants) - 1) : variants[i + 1].Ordinal # i + 1

(* the check of lines 324-330 on one sorted group *)
Noncontiguous(variants) ==
  \E i \in 0..(Len(variants) - 1) : variants[i + 1].Ordinal # i + 1

(* every result ParseExperiments can return for the records of the file:   *)
(* the sort and the map iteration order are the code's free choices        *)
ParseExperiments(recs) ==
  LET parsed == ParseRecords(recs, 1, EmptyMap)
      names == DOMAIN parsed.variants
      sortings == {s \in [names -> UNION {SortOutcomes(parsed.variants[n]) : n \in names}] :
                     \A n \in names : s[n] \in SortOutcomes(parsed.variants[n])}
  IN  IF parsed.err # ""
      THEN {[err |-> parsed.err, experiments |-> EmptyMap]}
      ELSE UNION {
             IF \E n \in names : Noncontiguous(s[n])
             THEN {[err |-> "noncontiguous", experiments |-> EmptyMap]}
             ELSE {[err |-> "",
                    experiments |-> [n \in names |-> [Name |-> n, Variants |-> s[n]]]]}
             : s \in sortings}

(* ------------------------------- Trials -------------------------------- *)

(* a BanditFactory: the strategy and parameter it constructs with *)
Factories ==
  {[kind |-> "epsilonGreedy", param |-> <<1, 4>>],
   [kind |-> "epsilonGreedy", param |-> <<5, 4>>],
   [kind |-> "softmax", param |-> <<1, 1>>]}

ApplyFactory(f, arms) ==
  IF f.kind = "epsilonGreedy" THEN EpsilonGreedyNew(arms, f.param)
  ELSE SoftmaxNew(arms, f.param)

(* every result NewTrials can return *)
NewTrials(recs, f) ==
  {IF p.err # ""
   THEN [err |-> "could not read experiments", trials |-> EmptyMap, parsed |-> p]
   ELSE IF \E n \in DOMAIN p.experiments :
             ApplyFactory(f, Len(p.experiments[n].Variants)).err # ""
   THEN [err |-> "factory", trials |-> EmptyMap, parsed |-> p]
   ELSE [err |-> "",
         trials |-> [n \in DOMAIN p.experiments |->
                       [Bandit |-> ApplyFactory(f, Len(p.experiments[n].Variants)).bandit,
                        Experiment |-> p.experiments[n]]],
         parsed |-> p]
   : p \in ParseExperiments(recs)}

(* Trials.GetVariant: the trials are visited in any order, the variants of *)
(* a trial in stored order; every result the search can return             *)
TrialsGetVariant(t, tag) ==
  LET hits == {n \in DOMAIN t :
                 \E i \in 1..Len(t[n].Experiment.Variants) :
                   t[n].Experiment.Variants[i].Tag = tag}
      first(n) == CHOOSE i \in 1..Len(t[n].Experiment.Variants) :
                    /\ t[n].Experiment.Variants[i].Tag = tag
                    /\ \A j \in 1..(i - 1) : t[n].Experiment.Variants[j].Tag # tag
  IN  IF hits = {}
      THEN {[outcome |-> "error", err |-> "could not find variant"]}
      ELSE {[outcome |-> "ok", experiment |-> t[n].Experiment,
             variant |-> t[n].Experiment.Variants[first(n)]] : n \in hits}

(* Trial.Select with the bandit's draws u and n *)
TrialSelect(t, u, n) ==
  LET r == IF t.Bandit.kind = "epsilonGreedy"
           THEN EpsilonGreedySelectArm(t.Bandit, u, n)
           ELSE SoftmaxSelectArm(t.Bandit)
      g == ExperimentGetVariant(t.Experiment, r.ret)
  IN  [trial |-> [t EXCEPT !.Bandit = r.bandit], selected |-> r.ret, got |-> g]

(* ------------------------- one bandit and its callers ------------------ *)

NoCall == [op |-> "none"]

(* per arm, the sum and the number of the rewards given to Update since    *)
(* construction or the last Reset                                          *)
NoRewards(arms) == [i \in 1..arms |-> <<0, 0>>]

Constructions ==
  {EpsilonGreedyNew(arms, eps) : arms \in 1..MaxArms, eps \in Epsilons}
    \cup {SoftmaxNew(arms, tau) : arms \in 1..MaxArms, tau \in Taus}

BanditInit ==
  /\ \E c \in Constructions :
       /\ b = c.bandit
       /\ pc = IF c.err = "" THEN "running" ELSE "rejected"
       /\ hist = IF c.err = "" THEN NoRewards(c.bandit.arms) ELSE <<>>
  /\ last = NoCall
  /\ steps = 0

Called ==
  /\ pc = "running"
  /\ steps < MaxSteps
  /\ steps' = steps + 1
  /\ UNCHANGED trialVars

EGSelectArm ==
  /\ Called
  /\ b.kind = "epsilonGreedy"
  /\ \E u \in Uniforms, n \in 0..(b.arms - 1) :
       LET r == EpsilonGreedySelectArm(b, u, n)
       IN  /\ b' = r.bandit
           /\ last' = [op |-> "SelectArm", ret |-> r.ret, branch |-> r.branch,
                       outcome |-> r.outcome, pre |-> b]
  /\ UNCHANGED <<hist, pc>>

SMSelectArm ==
  /\ Called
  /\ b.kind = "softmax"
  /\ LET r == SoftmaxSelectArm(b)
     IN  /\ b' = r.bandit
         /\ last' = [op |-> "SelectArm", ret |-> r.ret, branch |-> r.branch,
                     outcome |-> r.outcome, pre |-> b]
  /\ UNCHANGED <<hist, pc>>

Update ==
  /\ Called
  /\ \E arm \in 0..(b.arms + 1), reward \in Rewards :
       LET r == BanditUpdate(b, arm, reward)
       IN  /\ b' = r.bandit
           /\ last' = [op |-> "Update", arm |-> arm, reward |-> reward,
                       outcome |-> r.outcome, pre |-> b]
           /\ pc' = IF r.outcome = "panic" THEN "panicked" ELSE pc
           /\ hist' = IF r.outcome = "panic" THEN hist
                      ELSE [hist EXCEPT ![arm] = <<@[1] + reward, @[2] + 1>>]

Reset ==
  /\ Called
  /\ b' = BanditReset(b)
  /\ last' = [op |-> "Reset", outcome |-> "ok", pre |-> b]
  /\ hist' = NoRewards(b.arms)
  /\ UNCHANGED pc

Version ==
  /\ Called
  /\ last' = [op |-> "Version", ret |-> BanditVersion(b), outcome |-> "ok",
              pre |-> b]
  /\ UNCHANGED <<b, hist, pc>>


Next == EGSelectArm \/ SMSelectArm \/ Update \/ Reset \/ Version

(* --------------------- a Trials registry and its callers --------------- *)

(* the rows a file is made of: name, ordinal, URL, tag *)
RecordPool ==
  {<<<<"e">>, <<"1">>, <<"/", "a">>, <<"e", ":", "a">>>>,
   <<<<"e">>, <<"2">>, <<"/", "b">>, <<"e", ":", "b">>>>,
   <<<<"e">>, <<"3">>, <<"/", "c">>, <<"e", ":", "a">>>>,
   <<<<"e">>, <<"0">>, <<"/", "z">>, <<"e", ":", "z">>>>,
   <<<<"e">>, <<"1">>, <<"/", "d">>, <<"e", ":", "b", ":", "c">>>>,
   <<<<"e", ":", "b">>, <<"1">>, <<"/", "e">>, <<"e", ":", "b", ":", "c">>>>,
   <<<<"e">>, <<"x">>, <<"/", "a">>, <<"e", ":", "a">>>>,
   <<<<"e", " ", "f">>, <<"1">>, <<"/", "a">>, <<"e", " ", "f", ":", "a">>>>,
   <<<<"e">>, <<"1">>, <<"/", "a">>, <<"e", ":", "a", " ", "b">>>>,
   <<<<"e">>, <<"1">>, <<"/", "a">>, <<"o", ":", "a">>>>,
   <<<<"e">>, <<"1">>, <<"e", ":", "a">>>>}

(* the tags callers look up: those of the file and one no file holds *)
TagPool(recs) == {recs[i][Len(recs[i])] : i \in 1..Len(recs)} \cup {<<"e", ":", "q">>}

Files == UNION {[1..n -> RecordPool] : n \in 0..MaxRecords}

NoTrials ==
  /\ records = <<>>
  /\ factory = [kind |-> "none"]
  /\ experiments = EmptyMap
  /\ perr = ""
  /\ trials = EmptyMap
  /\ terr = ""
  /\ tlast = NoCall
  /\ calls = 0
  /\ tpc = "idle"

NoBandit ==
  /\ b = [kind |-> "none"]
  /\ last = NoCall
  /\ hist = <<>>
  /\ steps = 0
  /\ pc = "idle"

Init == BanditInit /\ NoTrials

Spec == Init /\ [][Next]_vars

TrialsInit ==
  /\ records \in Files
  /\ factory \in Factories
  /\ experiments = EmptyMap
  /\ perr = ""
  /\ trials = EmptyMap
  /\ terr = ""
  /\ tlast = NoCall
  /\ calls = 0
  /\ tpc = "start"

(* NewTrials(file, factory); experiments and perr keep what its call of    *)
(* ParseExperiments returned                                               *)
DoNewTrials ==
  /\ tpc = "start"
  /\ \E r \in NewTrials(records, factory) :
       /\ experiments' = r.parsed.experiments
       /\ perr' = r.parsed.err
       /\ trials' = r.trials
       /\ terr' = r.err
       /\ tpc' = IF r.err = "" THEN "serving" ELSE "failed"
  /\ tlast' = [op |-> "NewTrials"]
  /\ UNCHANGED <<records, factory, calls, banditVars>>

TrialCalled ==
  /\ tpc = "serving"
  /\ calls < MaxCalls
  /\ calls' = calls + 1
  /\ UNCHANGED <<records, factory, experiments, perr, terr, banditVars>>

DoTrialSelect ==
  /\ TrialCalled
  /\ \E name \in DOMAIN trials, u \in Uniforms :
     \E n \in 0..(Len(trials[name].Experiment.Variants) - 1) :
       LET r == TrialSelect(trials[name], u, n)
       IN  /\ trials' = [trials EXCEPT ![name] = r.trial]
           /\ tlast' = [op |-> "Select", name |-> name, selected |-> r.selected,
                        got |-> r.got]
           /\ tpc' = IF r.got.outcome = "panic" THEN "panicked" ELSE tpc

DoTrialUpdate ==
  /\ TrialCalled
  /\ \E name \in DOMAIN trials, reward \in Rewards :
     \E arm \in 1..Len(trials[name].Experiment.Variants) :
       LET r == BanditUpdate(trials[name].Bandit, arm, reward)
       IN  /\ trials' = [trials EXCEPT ![name].Bandit = r.bandit]
           /\ tlast' = [op |-> "Update", name |-> name, arm |-> arm,
                        outcome |-> r.outcome]
  /\ UNCHANGED tpc

DoExperimentGetVariant ==
  /\ TrialCalled
  /\ \E name \in DOMAIN trials :
     \E ordinal \in -1..(Len(trials[name].Experiment.Variants) + 1) :
       LET g == ExperimentGetVariant(trials[name].Experiment, ordinal)
       IN  /\ tlast' = [op |-> "GetVariant", name |-> name, ordinal |-> ordinal,
                        got |-> g]
           /\ tpc' = IF g.outcome = "panic" THEN "panicked" ELSE tpc
  /\ UNCHANGED trials

DoTrialsGetVariant ==
  /\ TrialCalled
  /\ \E tag \in TagPool(records) :
       \E g \in TrialsGetVariant(trials, tag) :
         tlast' = [op |-> "Trials.GetVariant", tag |-> tag, got |-> g]
  /\ UNCHANGED <<trials, tpc>>

TrialsNext ==
  \/ DoNewTrials
  \/ DoTrialSelect
  \/ DoTrialUpdate
  \/ DoExperimentGetVariant
  \/ DoTrialsGetVariant

TrialsSpecInit == TrialsInit /\ NoBandit

TrialsSpec == TrialsSpecInit /\ [][TrialsNext]_vars

(* ------------------------------- claims -------------------------------- *)

(* C1: every SelectArm of an epsilonGreedy bandit with arms >= 1 and a     *)
(* valid epsilon returns an ordinal in 1..arms, whatever calls came before *)
(* and whatever the random draws were.                                     *)
C1_EpsilonGreedySelectInRange ==
  (b.kind = "epsilonGreedy" /\ last.op = "SelectArm") => last.ret \in 1..b.arms

(* an explore draw that returned the last of two arms, after an Update *)
C1_Witness ==
  /\ b.kind = "epsilonGreedy" /\ last.op = "SelectArm"
  /\ last.branch = "explore" /\ b.arms = 2 /\ last.ret = 2
  /\ \E a \in 1..b.arms : hist[a][2] > 0

(* C2: every SelectArm of a softmax bandit with arms >= 1 returns a        *)
(* 1-based ordinal in 1..arms (never 0).                                   *)
C2_SoftmaxSelectInRange ==
  (b.kind = "softmax" /\ last.op = "SelectArm") => last.ret \in 1..b.arms

MeanOfRewards(h) == IF h[2] = 0 THEN Zero ELSE Rat(h[1], h[2])

(* C3: for either strategy, each arm's value is the arithmetic mean of the *)
(* rewards given to Update for it since construction or the last Reset     *)
(* (so r after n Updates with the same r), and 0 while there were none.    *)
C3_ValueIsMeanOfRewards ==
  pc \in {"running", "panicked"} =>
    \A a \in 1..b.arms : b.values[a] = MeanOfRewards(hist[a])

(* C4: for both strategies, a SelectArm that returns k adds exactly 1 to   *)
(* the count of arm k and changes no other count and no value.             *)
C4_SelectCountsChosenArm ==
  last.op = "SelectArm" =>
    /\ last.ret \in 1..b.arms
    /\ b.values = last.pre.values
    /\ \A a \in 1..b.arms :
         b.counts[a] = last.pre.counts[a] + (IF a = last.ret THEN 1 ELSE 0)

AllZero(bd) ==
  /\ Len(bd.counts) = bd.arms /\ Len(bd.values) = bd.arms
  /\ \A a \in 1..bd.arms : bd.counts[a] = 0 /\ bd.values[a] = Zero

Parameter(bd) == IF bd.kind = "epsilonGreedy" THEN bd.epsilon ELSE bd.tau

(* C5: for either strategy, Reset leaves counts and values all zero, of    *)
(* length arms, and keeps arms, epsilon/tau and the Version string; a      *)
(* second Reset changes nothing.                                           *)
C5_ResetZeroesAndKeepsParameters ==
  last.op = "Reset" =>
    /\ AllZero(b)
    /\ b.kind = last.pre.kind /\ b.arms = last.pre.arms
    /\ Parameter(b) = Parameter(last.pre)
    /\ BanditVersion(b) = BanditVersion(last.pre)
    /\ BanditReset(b) = b

(* a Reset of an epsilonGreedy bandit that held a nonzero value *)
C5_Witness ==
  /\ last.op = "Reset" /\ b.kind = "epsilonGreedy"
  /\ \E a \in 1..b.arms : last.pre.values[a] # Zero /\ last.pre.counts[a] > 1

(* C9: for either strategy, Update with an arm outside 1..arms is reported *)
(* as an UnknownOrdinal error, not a crash, and changes no count or value. *)
C9_UpdateOutOfRangeIsError ==
  (last.op = "Update" /\ last.arm \notin 1..b.arms) =>
    last.outcome = "UnknownOrdinal" /\ b = last.pre

IsFirstMaximum(values, k) ==
  /\ \A j \in 1..Len(values) : RLeq(values[j], values[k])
  /\ \A j \in 1..(k - 1) : RLess(values[j], values[k])

(* C10: an epsilonGreedy SelectArm whose draw exceeds epsilon returns the  *)
(* lowest-indexed arm of maximal value; when the draw does not exceed      *)
(* epsilon every arm of 1..arms can be the result.                         *)
C10_ExploitFirstMaximum ==
  /\ (b.kind = "epsilonGreedy" /\ last.op = "SelectArm" /\ last.branch = "exploit")
       => IsFirstMaximum(last.pre.values, last.ret)
  /\ (b.kind = "epsilonGreedy" /\ pc = "running" /\ steps < MaxSteps)
       => \A k \in 1..b.arms :
            ENABLED (EGSelectArm /\ last'.branch = "explore" /\ last'.ret = k)

(* an exploit draw with two arms tied at a nonzero maximum *)
C10_Witness ==
  /\ b.kind = "epsilonGreedy" /\ last.op = "SelectArm" /\ last.branch = "exploit"
  /\ b.arms >= 2 /\ b.values[1] = b.values[2] /\ b.values[1] # Zero

RecordsOf(name) == {i \in 1..Len(records) : records[i][1] = name}

(* C6: when ParseExperiments succeeds, each experiment's variants in       *)
(* stored order have the ordinals 1, 2, ..., n, n being the number of the  *)
(* experiment's records (so a gap, a duplicate or a start other than 1     *)
(* makes it fail); when it fails the experiment set returned is empty.     *)
C6_OrdinalsContiguousOrNothing ==
  tpc # "start" =>
    /\ perr = "" =>
         /\ DOMAIN experiments = {records[i][1] : i \in 1..Len(records)}
         /\ \A name \in DOMAIN experiments :
              LET v == experiments[name].Variants
              IN  /\ Len(v) = Cardinality(RecordsOf(name))
                  /\ \A k \in 1..Len(v) :
                       /\ v[k].Ordinal = k
                       /\ \E i \in RecordsOf(name) :
                            /\ Atoi(records[i][2]).n = k
                            /\ records[i][4] = v[k].Tag
    /\ perr # "" => experiments = EmptyMap /\ trials = EmptyMap

(* a file whose records come in descending ordinal order parsed into one   *)
(* experiment of two variants                                              *)
C6_Witness ==
  /\ tpc = "serving" /\ perr = "" /\ Len(records) >= 2
  /\ Atoi(records[1][2]).n = 2
  /\ \E name \in DOMAIN experiments : Len(experiments[name].Variants) = 2

(* C7: Experiment.GetVariant returns an error, without crashing, for every *)
(* ordinal outside 1..len(Variants), 0 and negatives included, and the     *)
(* variant of that ordinal inside it; so Trial.Select yields the variant   *)
(* of the ordinal SelectArm returned, or a reported error.                 *)
C7_GetVariantErrorOutsideRange ==
  /\ tlast.op = "GetVariant" =>
       IF tlast.ordinal \in 1..Len(trials[tlast.name].Experiment.Variants)
       THEN tlast.got.outcome = "ok" /\ tlast.got.variant.Ordinal = tlast.ordinal
       ELSE tlast.got.outcome = "error"
  /\ tlast.op = "Select" =>
       \/ tlast.got.outcome = "error"
       \/ tlast.got.outcome = "ok" /\ tlast.got.variant.Ordinal = tlast.selected

(* C8: in every experiment set ParseExperiments accepts, no two distinct   *)
(* variants, of one experiment or of two, carry the same tag.              *)
C8_TagsGloballyUnique ==
  (tpc # "start" /\ perr = "") =>
    \A n1, n2 \in DOMAIN experiments :
      \A i \in 1..Len(experiments[n1].Variants),
         j \in 1..Len(experiments[n2].Variants) :
        (experiments[n1].Variants[i].Tag = experiments[n2].Variants[j].Tag)
          => (n1 = n2 /\ i = j)

====
